---------------------------- MODULE Spec2Model ----------------------------
(***************************************************************************)
(* The user CRUD layer of the repository: UserRepository (app/crud/user.py) *)
(* on top of IndexFilter (app/crud/filter.py), the password hashing of      *)
(* app/core/security/password.py and the users table of app/models/user.py. *)
(*                                                                          *)
(* Every request is a task that runs one repository or filter call on its   *)
(* own session.  A call is cut at the points where the coroutine waits for  *)
(* the database (commit, get) and where a frame returns through the exit of *)
(* its `async with` block.  The database is the set of committed rows and   *)
(* the id sequence; a database operation either takes effect atomically or  *)
(* fails with an SQLAlchemyError.                                           *)
(***************************************************************************)
EXTENDS Integers, Sequences, FiniteSets, TLC

(***************************************************************************)
(* Bounds of the model.                                                     *)
(***************************************************************************)
\* Values the id sequence of the users table may hand out.
MaxId == 3

(***************************************************************************)
(* Small domains for the inputs.                                            *)
(***************************************************************************)
Tasks == {"t1", "t2"}
Usernames == {"alice01", "bob0002"}
Emails == {"alice@example.com", "bob@example.com"}
FirstNames == {"Alice", "Bob"}
\* A password is a sequence of characters; <<>> is the empty string.
Passwords == {<<>>, <<"V", "1">>, <<"W", "2">>}
\* The random salts bcrypt may draw.
Salts == {"salt1", "salt2"}

\* Python's None.
None == [none |-> TRUE]

\* No exception has left the call.
NoExc == [type |-> "none", msg |-> ""]

\* DatabaseException(msg) of app.core.security.exception.
DatabaseException(msg) == [type |-> "DatabaseException", msg |-> msg]

\* The scheme identifier that starts every hash of crypt_context.
BcryptIdent == "$2b$"

\* The text of the error the hashing raises for an empty password.
EmptyPasswordError == "Password cannot be empty or None"

\* str(exc) of the SQLAlchemyError a failed database operation raises.
DriverError == "SQLAlchemyError"

\* The message of the error create_user raises when the row it inserted is
\* not read back.
NotCreatedError == "User could not be created."

\* The value of the column default `datetime.now()` of created_at, which
\* Python evaluates once, when the User class is defined.
ModelLoadedAt == 1

(***************************************************************************)
(* Schemas: the create inputs.                                              *)
(***************************************************************************)
\* UserCreate: the fields a plain sign-up supplies (no flags).
UserCreate ==
  [username : Usernames, email : Emails, first_name : FirstNames,
   password : Passwords]

\* UserSuperCreate: UserCreate plus is_superuser, True unless supplied.
UserSuperCreate ==
  [username : Usernames, email : Emails, first_name : FirstNames,
   password : Passwords, is_superuser : {TRUE}]

\* The fields of a create input that the caller supplies.
SuppliedFields(user) == DOMAIN user

(***************************************************************************)
(* Specifications.                                                          *)
(***************************************************************************)
\* The constructor stores the successor of its argument.
IdSpecificationShifted(obj_id) == [kind |-> "id", value |-> obj_id + 1]

\* IdSpecification(obj_id): a value holder.  The PositiveInt of the signature
\* is an annotation that nothing enforces: every integer is stored.
IdSpecification(obj_id) == [kind |-> "id", value |-> obj_id]

\* The ids callers pass: those the sequence hands out, zero and a negative.
IdArgs == {-1, 0} \cup 1..MaxId

\* EmailSpecification(email): a value holder.
EmailSpecification(email) == [kind |-> "email", value |-> email]

\* UsernameSpecification(username): a value holder.
UsernameSpecification(username) == [kind |-> "username", value |-> username]

(***************************************************************************)
(* Password hashing.                                                        *)
(***************************************************************************)
\* crypt_context.hash: identifier, salt, then the digest of the password,
\* which stands for the password it was computed from.
crypt_hash(password, salt) == <<BcryptIdent, salt>> \o password

\* The hashing without the check for an empty password.
get_password_hash_unchecked(password, salt) ==
  [raised |-> FALSE, value |-> crypt_hash(password, salt)]

\* get_password_hash: an error for an empty password, else the bcrypt hash.
get_password_hash(password, salt) ==
  IF password = <<>>
    THEN [raised |-> TRUE, value |-> <<>>]
    ELSE [raised |-> FALSE, value |-> crypt_hash(password, salt)]

\* verify_password for non-empty arguments: the hash is a bcrypt hash whose
\* digest is the digest of the plain password under the hash's own salt.
verify_password(hashed_password, plain_password) ==
  /\ Len(hashed_password) >= 2
  /\ hashed_password[1] = BcryptIdent
  /\ hashed_password = crypt_hash(plain_password, hashed_password[2])

(***************************************************************************)
(* The users table.                                                         *)
(***************************************************************************)
\* user.copy(update={"password": hashed_password}) gone wrong: the copy
\* keeps the password of the input.
user_copy_keeps_plaintext(user, hashed_password) == user

\* user.copy(update={"password": hashed_password})
user_copy(user, hashed_password) ==
  [user EXCEPT !.password = hashed_password]

\* The row with the default of is_superuser turned to True.
UserRowSuperByDefault(user_in) ==
  [id |-> 0,
   username |-> user_in.username,
   email |-> user_in.email,
   first_name |-> user_in.first_name,
   password |-> user_in.password,
   is_active |-> TRUE,
   is_superuser |-> TRUE,
   created_at |-> ModelLoadedAt]

\* User(**user_in.dict()): the supplied fields as given, the column defaults
\* for the flags and created_at; the id (0 here) is not assigned before the
\* INSERT.
UserRow(user_in) ==
  [id |-> 0,
   username |-> user_in.username,
   email |-> user_in.email,
   first_name |-> user_in.first_name,
   password |-> user_in.password,
   is_active |-> TRUE,
   is_superuser |-> IF "is_superuser" \in DOMAIN user_in
                      THEN user_in.is_superuser ELSE FALSE,
   created_at |-> ModelLoadedAt]

Ids(store) == {r.id : r \in store}

\* unique=True on username and on email: the row collides with a stored one.
UniqueViolation(store, row) ==
  \E r \in store : r.username = row.username \/ r.email = row.email

\* The sequence does not move.
nextval_stuck(seq) == seq

\* The id sequence after handing out seq.
nextval_after(seq) == seq + 1

\* A commit that does not check the unique constraints.
session_commit_unchecked(store, seq, row, fail) ==
  IF fail
    THEN [ok |-> FALSE, rows |-> store, seq |-> seq, id |-> 0]
    ELSE [ok |-> TRUE, rows |-> store \cup {[row EXCEPT !.id = seq]},
          seq |-> nextval_after(seq), id |-> seq]

\* A commit that reports a failure after the row has become durable.
session_commit_torn(store, seq, row, fail) ==
  IF UniqueViolation(store, row)
    THEN [ok |-> FALSE, rows |-> store, seq |-> nextval_after(seq), id |-> 0]
    ELSE [ok |-> ~fail, rows |-> store \cup {[row EXCEPT !.id = seq]},
          seq |-> nextval_after(seq), id |-> seq]

\* session.add(row); await session.commit(): the INSERT takes the next id of
\* the sequence and either commits the row or fails (with `fail` for a driver
\* error, or with an IntegrityError on a unique violation, which still uses
\* up the id) and leaves the table as it was.
session_commit(store, seq, row, fail) ==
  IF fail
    THEN [ok |-> FALSE, rows |-> store, seq |-> seq, id |-> 0]
    ELSE IF UniqueViolation(store, row)
      THEN [ok |-> FALSE, rows |-> store, seq |-> nextval_after(seq),
            id |-> 0]
      ELSE [ok |-> TRUE, rows |-> store \cup {[row EXCEPT !.id = seq]},
            seq |-> nextval_after(seq), id |-> seq]

\* Leaving the block empties the table.
session_close_purges(store) == {}

\* __aexit__ of `async with session` closes the session: nothing is flushed
\* or committed, the table stays as it is.
session_close(store) == store

\* await async_session.get(model, _id): the row with that primary key, or
\* None.
session_get(store, _id) ==
  IF _id \in Ids(store)
    THEN CHOOSE r \in store : r.id = _id
    ELSE None

(***************************************************************************)
(* IndexFilter.filter, from the key fetch to the value it hands back.       *)
(***************************************************************************)
\* The except branch re-raises the driver error after logging it.
index_filter_reraises(store, _id, fail) ==
  IF fail
    THEN [raised |-> TRUE, db_obj |-> None, errors |-> 1]
    ELSE [raised |-> FALSE, db_obj |-> session_get(store, _id), errors |-> 0]

\* db_obj starts as None; a failing get is logged and leaves it None.
index_filter_try(store, _id, fail) ==
  IF fail
    THEN [raised |-> FALSE, db_obj |-> None, errors |-> 1]
    ELSE [raised |-> FALSE, db_obj |-> session_get(store, _id), errors |-> 0]

(***************************************************************************)
(* UniqueFilter.filter                                                      *)
(***************************************************************************)
\* The call leaves out the field argument.
FieldOmitted == "<omitted>"

\* What callers pass as field: nothing, a unique column, another column, or
\* a name that is no column.
FieldArgs == {FieldOmitted, "username", "email", "first_name", "nickname"}

\* The text of the error for a field that is neither username nor email.
InvalidFieldError == "Invalid field specified for filtering"

\* The parameter default is the username column.
field_or_default_username(field_arg) ==
  IF field_arg = FieldOmitted THEN "username" ELSE field_arg

\* The parameter default: field: str = "email".
field_or_default(field_arg) ==
  IF field_arg = FieldOmitted THEN "email" ELSE field_arg

\* Any other field is compared as the email column.
unique_filter_stmt_falls_back(field) ==
  IF field = "username"
    THEN [raised |-> FALSE, column |-> "username"]
    ELSE [raised |-> FALSE, column |-> "email"]

\* Lines 85-92: the statement compares the username or the email column;
\* any other field is a ValueError.
unique_filter_stmt(field) ==
  IF field = "username"
    THEN [raised |-> FALSE, column |-> "username"]
    ELSE IF field = "email"
      THEN [raised |-> FALSE, column |-> "email"]
      ELSE [raised |-> TRUE, column |-> ""]

\* A select without the where clause: every row matches.
MatchesAnyRow(store, column, value) == store

\* select(model).where(model.<column> == value): the rows that match.
Matches(store, column, value) == {r \in store : r[column] = value}

\* .first() in place of .one(): some matching row, or None.
scalars_first(store, column, value, fail) ==
  LET found == Matches(store, column, value) IN
    IF fail
      THEN [raised |-> "SQLAlchemyError", db_obj |-> None]
      ELSE IF found = {}
        THEN [raised |-> "NoResultFound", db_obj |-> None]
        ELSE [raised |-> "none", db_obj |-> CHOOSE r \in found : TRUE]

\* .one_or_none() in place of .one(): None when no row matches.
scalars_one_or_none(store, column, value, fail) ==
  LET found == Matches(store, column, value) IN
    IF fail
      THEN [raised |-> "SQLAlchemyError", db_obj |-> None]
      ELSE IF found = {}
        THEN [raised |-> "none", db_obj |-> None]
        ELSE IF Cardinality(found) > 1
          THEN [raised |-> "MultipleResultsFound", db_obj |-> None]
          ELSE [raised |-> "none", db_obj |-> CHOOSE r \in found : TRUE]

\* .one() on a query whose failure is swallowed and read as no row.
scalars_one_swallows(store, column, value, fail) ==
  LET found == Matches(store, column, value) IN
    IF fail
      THEN [raised |-> "none", db_obj |-> None]
      ELSE IF found = {}
        THEN [raised |-> "NoResultFound", db_obj |-> None]
        ELSE IF Cardinality(found) > 1
          THEN [raised |-> "MultipleResultsFound", db_obj |-> None]
          ELSE [raised |-> "none", db_obj |-> CHOOSE r \in found : TRUE]

\* (await async_session.scalars(stmt)).one(): the one matching row;
\* NoResultFound for none, MultipleResultsFound for several, both of them
\* SQLAlchemyErrors, as is the error of a failing query.
scalars_one(store, column, value, fail) ==
  LET found == Matches(store, column, value) IN
    IF fail
      THEN [raised |-> "SQLAlchemyError", db_obj |-> None]
      ELSE IF found = {}
        THEN [raised |-> "NoResultFound", db_obj |-> None]
        ELSE IF Cardinality(found) > 1
          THEN [raised |-> "MultipleResultsFound", db_obj |-> None]
          ELSE [raised |-> "none", db_obj |-> CHOOSE r \in found : TRUE]

(***************************************************************************)
(* Email: settings, Python values, the outcomes of smtplib.                 *)
(***************************************************************************)
\* The SMTP part of the settings: STARTTLS or not, a user and a password,
\* either of which may be the empty string.
SmtpSettings ==
  [SMTP_TLS : BOOLEAN, SMTP_USER : {"", "bot"},
   SMTP_PASSWORD : {"", "secret"}]

\* A Python bool.
PyBool(truth) == [type |-> "bool", truth |-> truth]

\* A Python str, as the sequence of its parts.
PyStr(text) == [type |-> "str", text |-> text]

\* bool(value): a str is true unless it is empty.
Truthy(value) ==
  IF value.type = "bool" THEN value.truth ELSE value.text # <<>>

\* f"error sending email to {email_to}.\n{exc}"
ErrorSending(email_to, exc) == <<"error sending email to ", email_to, exc>>

\* What a call of smtplib can end in: it succeeds, it raises an
\* SMTPException, or it raises an OSError of the socket.
SmtpOutcomes == {"ok", "SMTPException", "OSError"}

\* The locals of send_message before the connection is made.
NewMail(email_to, settings) ==
  [email_to |-> email_to, settings |-> settings, smtp_conn |-> "none",
   starttls |-> 0, login |-> "not called", logins |-> 0, sendmails |-> 0,
   value |-> None]

\* Line 54: login is called when a user and a password are set.
LoginWanted(setting) == setting.SMTP_USER # "" /\ setting.SMTP_PASSWORD # ""

\* login_to_smtp: True unless login was called and raised an SMTPException.
login_to_smtp(setting, outcome) ==
  IF LoginWanted(setting) /\ outcome = "SMTPException"
    THEN [value |-> "False", errors |-> 1]
    ELSE [value |-> "True", errors |-> 0]

\* sendmail is left out after a login that returned False.
sendmail_attempted_if_logged_in(is_logged_in) == is_logged_in = "True"

\* Line 93: the value of login_to_smtp is dropped; sendmail comes next.
sendmail_attempted(is_logged_in) == TRUE

\* Lines 99-102: the except branch returns the text of the error.
send_message_except(email_to, exc) == PyStr(ErrorSending(email_to, exc))

(***************************************************************************)
(* State.                                                                   *)
(***************************************************************************)
\* rows: the committed rows of the users table.
\* nextval: the next value of the id sequence of the table.
\* origin: history, the create input each committed id came from.
\* call: per task, the call it runs, its frames and their locals.
\* session: per repository, the scopes open on its session and whether the
\* session is new, in use or closed.
VARIABLES rows, nextval, origin, call, session

vars == <<rows, nextval, origin, call, session>>

\* A task that runs no call.
Idle ==
  [op |-> "none", stack |-> <<>>, pc |-> "idle", arg |-> None, spec |-> None,
   user_create |-> None, db_obj |-> None, user |-> None,
   created_user |-> None, result |-> None, exc |-> NoExc,
   errors |-> 0, adds |-> 0, gets |-> 0, before |-> {},
   fetch_failed |-> FALSE, commit_failed |-> FALSE,
   field_arg |-> "", field |-> "", column |-> "", selects |-> 0,
   repo |-> "", scopes |-> 0, closes |-> 0, mail |-> None]

\* A session no `async with` block has entered.
Fresh == [open |-> 0, state |-> "new"]

\* `async with session`: __aenter__ hands back the session itself.
Enter(s) == [s EXCEPT !.open = @ + 1]

\* A statement runs on the session (add and commit, get, scalars).
Use(s) == [s EXCEPT !.state = "active"]

\* The block ends without closing the session.
ExitLeavesOpen(s) == s

\* The end of an `async with session` block: __aexit__ closes the session.
Exit(s) == [s EXCEPT !.open = @ - 1, !.state = "closed"]

\* The end of n blocks, innermost first.
ExitScopes(s, n) == [open |-> s.open - n, state |-> "closed"]

\* A repository is named after the request get_user_repository built it for.
Repos == Tasks

\* get_session(): a session of its own for every repository that is built.
get_session(t) == t

\* get_user_repository() for the request of task t: the repository holds the
\* one session it was constructed with (self.session).
get_user_repository(t) == get_session(t)

\* No other request runs on the repository built for task t.
RepoFree(t) == \A x \in Tasks \ {t} : call[x].repo # get_user_repository(t)

Top(c) == c.stack[Len(c.stack)]

Pop(c) == SubSeq(c.stack, 1, Len(c.stack) - 1)

Init ==
  /\ rows = {}
  /\ nextval = 1
  /\ origin = [i \in 1..MaxId |-> None]
  /\ call = [t \in Tasks |-> Idle]
  /\ session = [r \in Repos |-> Fresh]

(***************************************************************************)
(* UserRepository.create_user                                               *)
(***************************************************************************)
\* Lines 72-74: hash the password, copy the input with the hash, build the
\* row.  An empty password makes the hashing raise ValueError.
CreateUser(t, user, salt) ==
  /\ call[t].pc = "idle"
  /\ RepoFree(t)
  /\ nextval + Cardinality({x \in Tasks : call[x].pc = "insert"}) <= MaxId
  /\ LET hashed == get_password_hash(user.password, salt) IN
       IF hashed.raised
         THEN call' = [call EXCEPT ![t] =
                [Idle EXCEPT !.op = "create_user", !.pc = "done",
                             !.repo = get_user_repository(t),
                             !.arg = user, !.before = Ids(rows),
                             !.errors = 1,
                             !.exc = [type |-> "ValueError",
                                      msg |-> EmptyPasswordError]]]
         ELSE call' = [call EXCEPT ![t] =
                [Idle EXCEPT !.op = "create_user",
                             !.repo = get_user_repository(t),
                             !.stack = <<"create_user">>, !.pc = "insert",
                             !.arg = user, !.before = Ids(rows),
                             !.user_create =
                               UserRow(user_copy(user, hashed.value))]]
  /\ UNCHANGED <<rows, nextval, origin, session>>

\* Lines 75-81: enter the session, add the row and commit.  A failure is
\* logged and raised as DatabaseException, which leaves the block.
Insert(t) ==
  /\ call[t].pc = "insert"
  /\ \E fail \in BOOLEAN :
       LET c == call[t]
           r == session_commit(rows, nextval, c.user_create, fail)
       IN
         /\ rows' = r.rows
         /\ nextval' = r.seq
         /\ origin' = [i \in 1..MaxId |->
                         IF i \in Ids(r.rows) \ Ids(rows)
                           THEN c.arg ELSE origin[i]]
         /\ IF r.ok
              THEN /\ call' = [call EXCEPT ![t] =
                        [c EXCEPT !.pc = "reread", !.adds = @ + 1,
                                  !.scopes = @ + 1,
                                  !.user_create.id = r.id]]
                   /\ session' = [session EXCEPT ![c.repo] = Use(Enter(@))]
              ELSE /\ call' = [call EXCEPT ![t] =
                        [c EXCEPT !.pc = "done", !.stack = <<>>,
                                  !.closes = @ + 1,
                                  !.adds = @ + 1, !.errors = @ + 1,
                                  !.commit_failed = TRUE,
                                  !.exc = DatabaseException(DriverError)]]
                   /\ session' = [session EXCEPT ![c.repo] =
                                    Exit(Use(Enter(@)))]

\* Lines 82-83 with lines 50-53: read_by_id(IdSpecification(user_create.id))
\* enters the session again and calls the index filter.
Reread(t) ==
  /\ call[t].pc = "reread"
  /\ call' = [call EXCEPT ![t] =
       [@ EXCEPT !.pc = "get", !.scopes = @ + 1,
                 !.spec = IdSpecification(call[t].user_create.id),
                 !.stack = @ \o <<"read_by_id", "index_filter">>]]
  /\ session' = [session EXCEPT ![call[t].repo] = Enter(@)]
  /\ UNCHANGED <<rows, nextval, origin>>

\* The check of the row read back leaves out the raise.
create_user_verify_lenient(store, row, created_user) ==
  [exc |-> NoExc, result |-> created_user, rows |-> store]

\* A failed check takes the inserted row out of the table again.
create_user_verify_compensating(store, row, created_user) ==
  IF created_user = None
    THEN [exc |-> DatabaseException(NotCreatedError), result |-> None,
          rows |-> store \ {row}]
    ELSE [exc |-> NoExc, result |-> created_user, rows |-> store]

\* Lines 84-86: no row read back is an error, else the row is the result;
\* the table is not touched either way.
create_user_verify(store, row, created_user) ==
  IF created_user = None
    THEN [exc |-> DatabaseException(NotCreatedError), result |-> None,
          rows |-> store]
    ELSE [exc |-> NoExc, result |-> created_user, rows |-> store]

\* Lines 84-86, then the end of the `async with` block of create_user.
Verify(t) ==
  /\ call[t].pc = "verify"
  /\ LET c == call[t]
         v == create_user_verify(rows, c.user_create, c.created_user)
     IN
       /\ call' = [call EXCEPT ![t] =
            [c EXCEPT !.pc = "done", !.stack = <<>>,
                      !.scopes = @ - 1, !.closes = @ + 1,
                      !.exc = v.exc, !.result = v.result]]
       /\ rows' = v.rows
  /\ session' = [session EXCEPT ![call[t].repo] = Exit(@)]
  /\ UNCHANGED <<nextval, origin>>

(***************************************************************************)
(* get_password_hash called on its own.                                     *)
(***************************************************************************)
HashPassword(t, password, salt) ==
  /\ call[t].pc = "idle"
  /\ LET hashed == get_password_hash(password, salt) IN
       call' = [call EXCEPT ![t] =
         IF hashed.raised
           THEN [Idle EXCEPT !.op = "get_password_hash", !.pc = "done",
                             !.arg = [password |-> password],
                             !.errors = 1,
                             !.exc = [type |-> "ValueError",
                                      msg |-> EmptyPasswordError]]
           ELSE [Idle EXCEPT !.op = "get_password_hash", !.pc = "done",
                             !.arg = [password |-> password],
                             !.result = [hash |-> hashed.value]]]
  /\ UNCHANGED <<rows, nextval, origin, session>>

(***************************************************************************)
(* UserRepository.read_by_id                                                *)
(***************************************************************************)
\* Lines 50-53 for task t on the repository that holds session r: enter the
\* session, call the filter.
ReadByIdOn(t, _id, r) ==
  /\ call[t].pc = "idle"
  /\ call' = [call EXCEPT ![t] =
       [Idle EXCEPT !.op = "read_by_id", !.pc = "get",
                    !.repo = r, !.scopes = 1,
                    !.arg = IdSpecification(_id),
                    !.spec = IdSpecification(_id),
                    !.before = Ids(rows),
                    !.stack = <<"read_by_id", "index_filter">>]]
  /\ session' = [session EXCEPT ![r] = Enter(@)]
  /\ UNCHANGED <<rows, nextval, origin>>

\* read_by_id called by a request on the repository built for it.
ReadById(t, _id) ==
  /\ RepoFree(t)
  /\ ReadByIdOn(t, _id, get_user_repository(t))

\* read_by_id called on the repository that was built for task x, while a
\* call of x on that repository has not ended.
ReadByIdShared(t, _id, x) ==
  /\ x # t
  /\ call[x].pc \notin {"idle", "done"}
  /\ call[x].repo = get_user_repository(x)
  /\ ReadByIdOn(t, _id, call[x].repo)

\* Line 57: hand the filter's value back and leave the block.
ReadByIdReturn(t) ==
  /\ call[t].pc = "read_return"
  /\ LET c == call[t] IN
       call' = [call EXCEPT ![t] =
         IF Len(c.stack) = 1
           THEN [c EXCEPT !.pc = "done", !.stack = <<>>,
                          !.scopes = @ - 1, !.closes = @ + 1,
                          !.result = c.user]
           ELSE [c EXCEPT !.pc = "verify", !.stack = Pop(c),
                          !.scopes = @ - 1, !.closes = @ + 1,
                          !.created_user = c.user]]
  /\ session' = [session EXCEPT ![call[t].repo] = Exit(@)]
  /\ rows' = session_close(rows)
  /\ UNCHANGED <<nextval, origin>>

(***************************************************************************)
(* IndexFilter.filter                                                       *)
(***************************************************************************)
\* The filter called on its own.
IndexFilter(t, _id) ==
  /\ call[t].pc = "idle"
  /\ RepoFree(t)
  /\ call' = [call EXCEPT ![t] =
       [Idle EXCEPT !.op = "index_filter", !.pc = "get",
                    !.repo = get_session(t),
                    !.arg = IdSpecification(_id),
                    !.spec = IdSpecification(_id),
                    !.before = Ids(rows),
                    !.stack = <<"index_filter">>]]
  /\ UNCHANGED <<rows, nextval, origin, session>>

\* Lines 59-70: enter the session and fetch by primary key.  Were the filter
\* to raise, read_by_id (lines 54-56) would log the error and raise
\* DatabaseException, which create_user lets through.
IndexFilterGet(t) ==
  /\ call[t].pc = "get"
  /\ \E fail \in BOOLEAN :
       LET c == call[t]
           o == index_filter_try(rows, c.spec.value, fail)
           caught == \E k \in 1..Len(c.stack) : c.stack[k] = "read_by_id"
       IN
         IF o.raised
           THEN /\ call' = [call EXCEPT ![t] =
                     [c EXCEPT !.pc = "done", !.stack = <<>>,
                               !.scopes = 0, !.closes = @ + c.scopes + 1,
                               !.gets = @ + 1, !.fetch_failed = fail,
                               !.errors = @ + o.errors
                                            + (IF caught THEN 1 ELSE 0),
                               !.exc = IF caught
                                         THEN DatabaseException(DriverError)
                                         ELSE [type |-> "SQLAlchemyError",
                                               msg |-> DriverError]]]
                /\ session' = [session EXCEPT ![c.repo] =
                                 ExitScopes(Use(Enter(@)), c.scopes + 1)]
           ELSE /\ call' = [call EXCEPT ![t] =
                     [c EXCEPT !.pc = "filter_return", !.gets = @ + 1,
                               !.scopes = @ + 1,
                               !.fetch_failed = fail,
                               !.errors = @ + o.errors,
                               !.db_obj = o.db_obj]]
                /\ session' = [session EXCEPT ![c.repo] = Use(Enter(@))]
  /\ UNCHANGED <<rows, nextval, origin>>

\* Line 71: return db_obj and leave the block.
IndexFilterReturn(t) ==
  /\ call[t].pc = "filter_return"
  /\ LET c == call[t] IN
       call' = [call EXCEPT ![t] =
         IF Len(c.stack) = 1
           THEN [c EXCEPT !.pc = "done", !.stack = <<>>,
                          !.scopes = @ - 1, !.closes = @ + 1,
                          !.result = c.db_obj]
           ELSE [c EXCEPT !.pc = "read_return", !.stack = Pop(c),
                          !.scopes = @ - 1, !.closes = @ + 1,
                          !.user = c.db_obj]]
  /\ session' = [session EXCEPT ![call[t].repo] = Exit(@)]
  /\ rows' = session_close(rows)
  /\ UNCHANGED <<nextval, origin>>

(***************************************************************************)
(* UniqueFilter.filter                                                      *)
(***************************************************************************)
\* Lines 82-92: build the statement for the field; a field that is neither
\* username nor email raises ValueError before the session is entered.
UniqueFilter(t, spec, field_arg) ==
  /\ call[t].pc = "idle"
  /\ RepoFree(t)
  /\ LET field == field_or_default(field_arg)
         stmt == unique_filter_stmt(field)
     IN
       call' = [call EXCEPT ![t] =
         IF stmt.raised
           THEN [Idle EXCEPT !.op = "unique_filter", !.pc = "done",
                             !.repo = get_session(t),
                             !.arg = spec, !.spec = spec,
                             !.field_arg = field_arg, !.field = field,
                             !.before = Ids(rows),
                             !.exc = [type |-> "ValueError",
                                      msg |-> InvalidFieldError]]
           ELSE [Idle EXCEPT !.op = "unique_filter", !.pc = "select",
                             !.repo = get_session(t),
                             !.arg = spec, !.spec = spec,
                             !.field_arg = field_arg,
                             !.field = field, !.column = stmt.column,
                             !.before = Ids(rows),
                             !.stack = <<"unique_filter">>]]
  /\ UNCHANGED <<rows, nextval, origin, session>>

\* Lines 93-100: enter the session and run the statement.  An SQLAlchemyError
\* is logged and raised again, which leaves the block; the row of a select
\* on User is a User, so the isinstance check passes.
UniqueFilterSelect(t) ==
  /\ call[t].pc = "select"
  /\ \E fail \in BOOLEAN :
       LET c == call[t]
           o == scalars_one(rows, c.column, c.spec.value, fail)
       IN
         IF o.raised # "none"
           THEN /\ call' = [call EXCEPT ![t] =
                     [c EXCEPT !.pc = "done", !.stack = <<>>,
                               !.selects = @ + 1, !.fetch_failed = fail,
                               !.closes = @ + 1, !.errors = @ + 1,
                               !.exc = [type |-> o.raised,
                                        msg |-> DriverError]]]
                /\ session' = [session EXCEPT ![c.repo] =
                                 Exit(Use(Enter(@)))]
                /\ rows' = session_close(rows)
           ELSE /\ call' = [call EXCEPT ![t] =
                     [c EXCEPT !.pc = "unique_return", !.selects = @ + 1,
                               !.scopes = @ + 1, !.fetch_failed = fail,
                               !.db_obj = o.db_obj]]
                /\ session' = [session EXCEPT ![c.repo] = Use(Enter(@))]
                /\ rows' = rows
  /\ UNCHANGED <<nextval, origin>>

\* Lines 101-102: return db_obj and leave the block.
UniqueFilterReturn(t) ==
  /\ call[t].pc = "unique_return"
  /\ call' = [call EXCEPT ![t] =
       [@ EXCEPT !.pc = "done", !.stack = <<>>,
                 !.scopes = @ - 1, !.closes = @ + 1,
                 !.result = call[t].db_obj]]
  /\ session' = [session EXCEPT ![call[t].repo] = Exit(@)]
  /\ rows' = session_close(rows)
  /\ UNCHANGED <<nextval, origin>>

(***************************************************************************)
(* send_email and send_message                                              *)
(***************************************************************************)
\* send_email lines 41-44: render subject and body, create the message and
\* call send_message.
SendEmail(t, email_to, settings) ==
  /\ call[t].pc = "idle"
  /\ call' = [call EXCEPT ![t] =
       [Idle EXCEPT !.op = "send_email", !.pc = "smtp_connect",
                    !.arg = [email_to |-> email_to],
                    !.stack = <<"send_email", "send_message">>,
                    !.mail = NewMail(email_to, settings)]]
  /\ UNCHANGED <<rows, nextval, origin, session>>

\* send_message called on its own; lines 79-86 collect the options.
SendMessage(t, email_to, settings) ==
  /\ call[t].pc = "idle"
  /\ call' = [call EXCEPT ![t] =
       [Idle EXCEPT !.op = "send_message", !.pc = "smtp_connect",
                    !.arg = [email_to |-> email_to],
                    !.stack = <<"send_message">>,
                    !.mail = NewMail(email_to, settings)]]
  /\ UNCHANGED <<rows, nextval, origin, session>>

\* An SMTPException inside the try of send_message: the `with` block, if it
\* was entered, closes the connection; lines 99-102 log and return the text.
SmtpCaught(c, conn) ==
  [c EXCEPT !.pc = "message_return", !.errors = @ + 1,
            !.mail.smtp_conn = conn,
            !.mail.value = send_message_except(c.mail.email_to,
                                               "SMTPException")]

\* An OSError is no SMTPException: it leaves send_message, and send_email
\* with it, after the `with` block, if entered, has closed the connection.
SmtpEscaped(c, conn) ==
  [c EXCEPT !.pc = "done", !.stack = <<>>, !.mail.smtp_conn = conn,
            !.exc = [type |-> "OSError", msg |-> "OSError"]]

\* Lines 88-90: smtplib.SMTP(host, port, timeout) connects.
SmtpConnect(t) ==
  /\ call[t].pc = "smtp_connect"
  /\ \E outcome \in SmtpOutcomes :
       LET c == call[t] IN
         call' = [call EXCEPT ![t] =
           IF outcome = "ok"
             THEN [c EXCEPT !.mail.smtp_conn = "open",
                            !.pc = IF c.mail.settings.SMTP_TLS
                                     THEN "starttls" ELSE "login"]
             ELSE IF outcome = "SMTPException"
               THEN SmtpCaught(c, "none")
               ELSE SmtpEscaped(c, "none")]
  /\ UNCHANGED <<rows, nextval, origin, session>>

\* Lines 91-92: smtp_conn.starttls().
SmtpStartTls(t) ==
  /\ call[t].pc = "starttls"
  /\ \E outcome \in SmtpOutcomes :
       LET c == call[t] IN
         call' = [call EXCEPT ![t] =
           IF outcome = "ok"
             THEN [c EXCEPT !.mail.starttls = @ + 1, !.pc = "login"]
             ELSE IF outcome = "SMTPException"
               THEN SmtpCaught([c EXCEPT !.mail.starttls = @ + 1], "closed")
               ELSE SmtpEscaped([c EXCEPT !.mail.starttls = @ + 1],
                                "closed")]
  /\ UNCHANGED <<rows, nextval, origin, session>>

\* Line 93 with login_to_smtp (lines 41-59): log in if a user and a password
\* are set; the bool that comes back is not kept.
SmtpLogin(t) ==
  /\ call[t].pc = "login"
  /\ \E outcome \in SmtpOutcomes :
       LET c == call[t]
           wanted == LoginWanted(c.mail.settings)
           is_logged_in == login_to_smtp(c.mail.settings, outcome)
           d == [c EXCEPT !.mail.logins = @ + (IF wanted THEN 1 ELSE 0),
                          !.mail.login = is_logged_in.value,
                          !.errors = @ + is_logged_in.errors]
       IN
         /\ wanted \/ outcome = "ok"
         /\ call' = [call EXCEPT ![t] =
              IF outcome = "OSError"
                THEN SmtpEscaped([d EXCEPT !.mail.login = "not returned"],
                                 "closed")
                ELSE IF sendmail_attempted(is_logged_in.value)
                  THEN [d EXCEPT !.pc = "sendmail"]
                  ELSE [d EXCEPT !.pc = "message_return",
                                 !.mail.smtp_conn = "closed",
                                 !.mail.value = PyBool(FALSE)]]
  /\ UNCHANGED <<rows, nextval, origin, session>>

\* Lines 94-98: sendmail, the end of the `with` block, which sends QUIT and
\* closes the connection, and `return True`.
SmtpSendmail(t) ==
  /\ call[t].pc = "sendmail"
  /\ \E outcome \in SmtpOutcomes :
       LET c == [call[t] EXCEPT !.mail.sendmails = @ + 1] IN
         call' = [call EXCEPT ![t] =
           IF outcome = "ok"
             THEN [c EXCEPT !.pc = "message_return",
                            !.mail.smtp_conn = "closed",
                            !.mail.value = PyBool(TRUE)]
             ELSE IF outcome = "SMTPException"
               THEN SmtpCaught(c, "closed")
               ELSE SmtpEscaped(c, "closed")]
  /\ UNCHANGED <<rows, nextval, origin, session>>

\* send_message returns; inside send_email the value becomes is_sent
\* (line 44).
SendMessageReturn(t) ==
  /\ call[t].pc = "message_return"
  /\ LET c == call[t] IN
       call' = [call EXCEPT ![t] =
         IF Len(c.stack) = 1
           THEN [c EXCEPT !.pc = "done", !.stack = <<>>,
                          !.result = c.mail.value]
           ELSE [c EXCEPT !.pc = "email_return", !.stack = Pop(c)]]
  /\ UNCHANGED <<rows, nextval, origin, session>>

\* send_email line 45: return is_sent.
SendEmailReturn(t) ==
  /\ call[t].pc = "email_return"
  /\ call' = [call EXCEPT ![t] =
       [@ EXCEPT !.pc = "done", !.stack = <<>>,
                 !.result = call[t].mail.value]]
  /\ UNCHANGED <<rows, nextval, origin, session>>

(***************************************************************************)
(* Rows put into the table behind the repository's back, in a table that    *)
(* was created without the unique constraints.                              *)
(***************************************************************************)
DirectInsert(user, salt) ==
  /\ nextval <= MaxId
  /\ LET row == [UserRow(user_copy(user, crypt_hash(user.password, salt)))
                   EXCEPT !.id = nextval]
     IN
       /\ rows' = rows \cup {row}
       /\ origin' = [origin EXCEPT ![nextval] = user]
  /\ nextval' = nextval_after(nextval)
  /\ UNCHANGED <<call, session>>

(***************************************************************************)
(* The request ends: its caller has the result and the task is free for the *)
(* next request.  The repository and its session are dropped with the last  *)
(* request that runs on them.                                               *)
(***************************************************************************)
Return(t) ==
  /\ call[t].pc = "done"
  /\ call' = [call EXCEPT ![t] = Idle]
  /\ session' = IF \E x \in Tasks \ {t} : call[x].repo = call[t].repo
                  THEN session
                  ELSE [session EXCEPT ![call[t].repo] = Fresh]
  /\ UNCHANGED <<rows, nextval, origin>>

(***************************************************************************)
(* Specifications.                                                          *)
(***************************************************************************)
CreateInputs == UserCreate \cup UserSuperCreate

\* The sign-ups of overlapping requests: they differ in username and email.
OverlapInputs ==
  {u \in UserCreate : u.first_name = "Alice" /\ u.password = <<"V", "1">>}

OverlapSalts == {"salt1"}

\* The lookups by a unique field: a specification and a field argument.
Lookups ==
  ({UsernameSpecification(u) : u \in Usernames}
     \cup {EmailSpecification(e) : e \in Emails}) \X FieldArgs

\* The lookups of overlapping requests.
OverlapLookups ==
  {<<UsernameSpecification("alice01"), "username">>,
   <<EmailSpecification("bob@example.com"), FieldOmitted>>}

Step(t, inputs, salts, lookups) ==
  \/ \E user \in inputs, salt \in salts : CreateUser(t, user, salt)
  \/ Insert(t)
  \/ Reread(t)
  \/ Verify(t)
  \/ \E _id \in IdArgs : ReadById(t, _id)
  \/ ReadByIdReturn(t)
  \/ \E _id \in IdArgs : IndexFilter(t, _id)
  \/ IndexFilterGet(t)
  \/ IndexFilterReturn(t)
  \/ \E l \in lookups : UniqueFilter(t, l[1], l[2])
  \/ UniqueFilterSelect(t)
  \/ UniqueFilterReturn(t)
  \/ \E user \in inputs, salt \in salts :
       HashPassword(t, user.password, salt)
  \/ Return(t)

\* One request after the other.
Next == Step("t1", CreateInputs, Salts, Lookups)

Spec == Init /\ [][Next]_vars

\* Requests that overlap.
NextConc ==
  \E t \in Tasks : Step(t, OverlapInputs, OverlapSalts, OverlapLookups)

SpecConc == Init /\ [][NextConc]_vars

\* Requests that overlap, on their own repository or on the repository of a
\* request that is under way.
NextShared ==
  \/ NextConc
  \/ \E t \in Tasks, x \in Tasks, _id \in 1..MaxId :
       ReadByIdShared(t, _id, x)

SpecShared == Init /\ [][NextShared]_vars

\* Lookups by a unique field on a table that is filled directly.
NextDirect ==
  \/ \E user \in OverlapInputs, salt \in OverlapSalts :
       DirectInsert(user, salt)
  \/ \E l \in Lookups : UniqueFilter("t1", l[1], l[2])
  \/ UniqueFilterSelect("t1")
  \/ UniqueFilterReturn("t1")
  \/ Return("t1")

SpecDirect == Init /\ [][NextDirect]_vars

\* Emails, one after the other.
NextMail ==
  \/ \E e \in Emails, st \in SmtpSettings : SendEmail("t1", e, st)
  \/ \E e \in Emails, st \in SmtpSettings : SendMessage("t1", e, st)
  \/ SmtpConnect("t1")
  \/ SmtpStartTls("t1")
  \/ SmtpLogin("t1")
  \/ SmtpSendmail("t1")
  \/ SendMessageReturn("t1")
  \/ SendEmailReturn("t1")
  \/ Return("t1")

SpecMail == Init /\ [][NextMail]_vars

\* The scopes the calls of the tasks in ts have open.
RECURSIVE Sum(_)
Sum(ts) ==
  IF ts = {} THEN 0
  ELSE LET t == CHOOSE x \in ts : TRUE IN call[t].scopes + Sum(ts \ {t})

TypeOK ==
  /\ nextval \in 1..(MaxId + 1)
  /\ \A r \in rows : r.id \in 1..MaxId
  /\ \A r \in Repos :
       session[r].open \in 0..5
         /\ session[r].state \in {"new", "active", "closed"}
  /\ \A r \in Repos :
       session[r].open = Sum({t \in Tasks : call[t].repo = r})
  /\ \A t \in Tasks : call[t].scopes \in 0..3 /\ call[t].closes \in 0..3

(***************************************************************************)
(* Properties.                                                              *)
(***************************************************************************)
\* The call of task t was `op` and has ended.
Done(t, op) == call[t].op = op /\ call[t].pc = "done"

\* The create_user call of task t has returned an entity.
Created(t) == Done(t, "create_user") /\ call[t].exc = NoExc

\* C1: read_by_id with a positive id that no persisted row has returns None
\* and raises nothing, whatever the table holds.
C1_ReadByIdAbsentIsNone ==
  \A t \in Tasks :
    (Done(t, "read_by_id") /\ call[t].arg.value \notin Ids(rows))
      => (call[t].result = None /\ call[t].exc = NoExc)

\* A read of an absent id has ended on a table that is not empty.
C1_Witness ==
  \E t \in Tasks :
    /\ Done(t, "read_by_id")
    /\ rows # {}
    /\ call[t].arg.value \notin Ids(rows)
    /\ call[t].gets = 1
    /\ call[t].result = None

\* C2: the entity a successful create_user returns has a password that is
\* not the plaintext of the input and that verify_password accepts for it.
C2_ReturnedPasswordIsHash ==
  \A t \in Tasks :
    Created(t)
      => /\ call[t].result.password # call[t].arg.password
         /\ verify_password(call[t].result.password, call[t].arg.password)

\* A create_user call has returned an entity.
C2_Witness ==
  \E t \in Tasks :
    /\ Created(t)
    /\ call[t].result # None
    /\ call[t].arg.password # <<>>

\* C3: no persisted row holds the plaintext password its create_user call
\* was given; every row holds a hash of that password.
C3_RowsHoldHashes ==
  \A r \in rows :
    /\ origin[r.id] # None
    /\ r.password # origin[r.id].password
    /\ verify_password(r.password, origin[r.id].password)

\* Two create_user calls have committed their rows.
C3_Witness == Cardinality(rows) >= 2

\* No two persisted rows share a username or an email.
UniqueRows ==
  \A r1, r2 \in rows :
    r1 # r2 => (r1.username # r2.username /\ r1.email # r2.email)

\* The insert of task t ends in this step although its row collides with a
\* persisted one.
CollidingInsert(t) ==
  /\ call[t].pc = "insert"
  /\ call'[t].pc # "insert"
  /\ UniqueViolation(rows, call[t].user_create)

\* C4: under every interleaving of create_user calls no two persisted rows
\* share a username or an email, and a call whose row would collide raises
\* DatabaseException and adds no row.
C4_UniqueUsernameEmail ==
  /\ []UniqueRows
  /\ [][\A t \in Tasks :
          CollidingInsert(t)
            => (call'[t].exc.type = "DatabaseException" /\ rows' = rows)]_vars

\* Two calls with the same username were both waiting to insert; one has
\* committed, the other has failed on the unique constraint.
C4_Witness ==
  \E a, b \in Tasks :
    /\ a # b
    /\ Created(a)
    /\ Done(b, "create_user")
    /\ call[b].commit_failed
    /\ call[b].before = {}
    /\ call[a].arg.username = call[b].arg.username
    /\ Cardinality(rows) = 1
    /\ nextval = 3

\* C5: the id of the entity a successful create_user returns is positive and
\* was the id of no row persisted before the call.
C5_ReturnedIdIsFresh ==
  \A t \in Tasks :
    Created(t)
      => (call[t].result.id > 0 /\ call[t].result.id \notin call[t].before)

\* A create_user call that started on a table with rows has returned.
C5_Witness ==
  \E t \in Tasks :
    /\ Created(t)
    /\ call[t].before # {}
    /\ call[t].result.id \notin call[t].before

\* The entity equals the create input in every field the input supplied,
\* the password aside, which is a hash of the input's.
RoundTrips(entity, user) ==
  /\ \A f \in SuppliedFields(user) \ {"password"} : entity[f] = user[f]
  /\ verify_password(entity.password, user.password)

\* C6: read_by_id with the id a successful create_user returned gives an
\* entity, not None, that equals the create input in every supplied field,
\* the password aside.
C6_CreateThenReadRoundTrip ==
  \A t \in Tasks :
    (Done(t, "read_by_id") /\ call[t].arg.value \in call[t].before)
      => /\ call[t].result # None
         /\ RoundTrips(call[t].result, origin[call[t].arg.value])

C8_ReadByIdRaisesOnFailure ==
  \A t \in Tasks :
    (Done(t, "read_by_id") /\ call[t].fetch_failed)
      => call[t].exc.type = "DatabaseException"

\* The filter frame of task t is about to return.
FilterReturns(t) ==
  /\ call[t].pc = "filter_return"
  /\ Top(call[t]) = "index_filter"

\* C9: IndexFilter.filter does not raise when the key fetch fails: it logs
\* the error and returns None, the value it returns for an id no row has.
C9_IndexFilterSwallows ==
  \A t \in Tasks :
    /\ (FilterReturns(t) /\ call[t].fetch_failed)
         => (call[t].db_obj = None /\ call[t].errors >= 1)
    /\ (Done(t, "index_filter") /\ call[t].fetch_failed)
         => (call[t].exc = NoExc /\ call[t].result = None
               /\ call[t].errors = 1)
    /\ (Done(t, "index_filter") /\ ~call[t].fetch_failed
          /\ call[t].arg.value \notin Ids(rows))
         => (call[t].exc = NoExc /\ call[t].result = None)

\* The filter has returned from a failed fetch of a row that exists.
C9_Witness ==
  \E t \in Tasks :
    /\ Done(t, "index_filter")
    /\ call[t].fetch_failed
    /\ call[t].arg.value \in Ids(rows)
    /\ call[t].result = None

\* C10: a failing insert makes create_user raise DatabaseException at once:
\* one insert attempt, no read by id, no row added.
C10_InsertFailureRaisesAtOnce ==
  [][\A t \in Tasks :
       (call[t].pc = "insert" /\ call'[t].commit_failed)
         => /\ call'[t].pc = "done"
            /\ call'[t].exc.type = "DatabaseException"
            /\ call'[t].adds = 1
            /\ call'[t].gets = 0
            /\ rows' = rows]_vars

\* A create_user call has ended in a failed insert.
C10_Witness ==
  \E t \in Tasks :
    /\ Done(t, "create_user")
    /\ call[t].commit_failed
    /\ call[t].exc.type = "DatabaseException"
    /\ call[t].adds = 1
    /\ call[t].gets = 0

\* The create_user call of task t has ended after its re-read by id gave
\* None.
RereadGaveNone(t) ==
  /\ Done(t, "create_user")
  /\ call[t].gets >= 1
  /\ call[t].created_user = None

\* C11: when the re-read after a successful insert gives None, create_user
\* raises DatabaseException("User could not be created."), returns no entity
\* and has read by id exactly once.
C11_NullRereadRaises ==
  \A t \in Tasks :
    RereadGaveNone(t)
      => /\ call[t].exc = DatabaseException(NotCreatedError)
         /\ call[t].result = None
         /\ call[t].adds = 1
         /\ call[t].gets = 1

\* A create_user call has committed its row and has then read None.
C11_Witness ==
  \E t \in Tasks :
    /\ RereadGaveNone(t)
    /\ ~call[t].commit_failed
    /\ call[t].user_create.id \in Ids(rows)
    /\ call[t].exc.type = "DatabaseException"

\* C12: a create_user call that fails after its insert committed leaves the
\* inserted row in the table: the caller has an exception, the table has the
\* row.
C12_FailedVerifyKeepsRow ==
  \A t \in Tasks :
    (RereadGaveNone(t) /\ call[t].exc # NoExc)
      => /\ call[t].user_create \in rows
         /\ call[t].result = None

\* The caller has the exception of the failed check while the row is there.
C12_Witness ==
  \E t \in Tasks :
    /\ RereadGaveNone(t)
    /\ call[t].exc = DatabaseException(NotCreatedError)
    /\ call[t].user_create \in rows
    /\ call[t].fetch_failed

\* The rows that match the lookup task t is running.
Matching(t) == Matches(rows, call[t].column, call[t].spec.value)

\* The query of the lookup of task t is answered in this step.
SelectStep(t) == call[t].pc = "select" /\ call'[t].pc # "select"

\* C13: when two persisted rows share the value of the selected unique
\* field, UniqueFilter.filter with that field and value raises an error
\* (MultipleResultsFound unless the query itself failed) and returns neither
\* row.
C13_AmbiguousMatchRaises ==
  [][\A t \in Tasks :
       (SelectStep(t) /\ Cardinality(Matching(t)) >= 2)
         => /\ call'[t].pc = "done"
            /\ call'[t].result = None
            /\ call'[t].exc.type
                 = (IF call'[t].fetch_failed
                      THEN "SQLAlchemyError" ELSE "MultipleResultsFound")]_vars

\* A lookup has ended in MultipleResultsFound on a table where two rows
\* share the value.
C13_Witness ==
  \E t \in Tasks :
    /\ Done(t, "unique_filter")
    /\ call[t].exc.type = "MultipleResultsFound"
    /\ call[t].result = None
    /\ Cardinality(Matching(t)) >= 2

C15_InvalidFieldRaises ==
  \A t \in Tasks :
    (Done(t, "unique_filter") /\ call[t].field \notin {"username", "email"})
      => /\ call[t].exc = [type |-> "ValueError", msg |-> InvalidFieldError]
         /\ call[t].result = None
         /\ call[t].selects = 0

\* A lookup by a column that is not unique has ended on a table whose rows
\* have that column.
C15_Witness ==
  \E t \in Tasks :
    /\ Done(t, "unique_filter")
    /\ call[t].field = "first_name"
    /\ rows # {}
    /\ call[t].exc.type = "ValueError"

\* Task t is inside an `async with` block of the session of its repository.
HoldsSession(t) == call[t].scopes > 0

\* C16: no two operations that overlap hold the same session instance, two
\* calls on one UserRepository included.
C16_OwnSessionPerOperation ==
  \A a, b \in Tasks :
    (a # b /\ HoldsSession(a) /\ HoldsSession(b))
      => call[a].repo # call[b].repo

\* The call of task t was a filter that has entered the session and ended.
FilterEnded(t) ==
  \/ Done(t, "index_filter") /\ call[t].gets = 1
  \/ Done(t, "unique_filter") /\ call[t].selects = 1

C18_NonPositiveIdRejected ==
  \A t \in Tasks :
    (call[t].spec # None /\ call[t].spec.kind = "id")
      => call[t].spec.value > 0

\* The value is a bcrypt hash of the password.
IsHashOf(value, password) ==
  /\ Len(value) > 2
  /\ value[1] = BcryptIdent
  /\ value[2] \in Salts
  /\ verify_password(value, password)

\* C19: get_password_hash raises an error for an empty password and returns
\* a hash for every other one.
C19_HashOrError ==
  \A t \in Tasks :
    Done(t, "get_password_hash")
      => IF call[t].arg.password = <<>>
           THEN /\ call[t].exc = [type |-> "ValueError",
                                  msg |-> EmptyPasswordError]
                /\ call[t].result = None
           ELSE /\ call[t].exc = NoExc
                /\ call[t].result # None
                /\ IsHashOf(call[t].result.hash, call[t].arg.password)

\* The hashing has raised for the empty password.
C19_Witness ==
  \E t \in Tasks :
    /\ Done(t, "get_password_hash")
    /\ call[t].arg.password = <<>>
    /\ call[t].exc.type = "ValueError"

\* The specification of task t carries the value it was constructed with.
CarriesItsValue(t) ==
  IF call[t].op = "create_user"
    THEN call[t].spec.value = call[t].user_create.id
    ELSE call[t].spec = call[t].arg

\* C20: a specification carries the value it was constructed with in every
\* later state; no filter or repository step changes it.
C20_SpecificationImmutable ==
  /\ [](\A t \in Tasks : call[t].spec # None => CarriesItsValue(t))
  /\ [][\A t \in Tasks :
          (call[t].spec # None /\ call'[t].pc # "idle")
            => call'[t].spec = call[t].spec]_vars

\* The specification create_user made for its re-read has gone through
\* read_by_id and the filter.
C20_Witness ==
  \E t \in Tasks :
    /\ Created(t)
    /\ call[t].spec = IdSpecification(call[t].result.id)
    /\ call[t].gets = 1

\* The row create_user of task t has built holds a hash of the password the
\* call was given.
HashedInput(t) ==
  /\ call[t].user_create # None
  /\ IsHashOf(call[t].user_create.password, call[t].arg.password)

\* The steps of create_user in the order of the code: from, to.
CreateUserOrder ==
  {<<"idle", "insert">>, <<"idle", "done">>, <<"insert", "reread">>,
   <<"insert", "done">>, <<"reread", "get">>, <<"get", "filter_return">>,
   <<"filter_return", "read_return">>, <<"read_return", "verify">>,
   <<"verify", "done">>, <<"done", "idle">>}

\* Task t takes a step of a create_user call.
CreateUserStep(t) ==
  /\ call'[t] # call[t]
  /\ call[t].op = "create_user" \/ call'[t].op = "create_user"

\* C21: create_user hashes, then inserts, then reads the row back by its id,
\* then returns or fails: the insert starts with the hash made, the re-read
\* starts after a commit that succeeded, and an entity is returned only after
\* a re-read that gave a row.
C21_CreateUserStepOrder ==
  /\ [](\A t \in Tasks :
          call[t].op = "create_user"
            => /\ (call[t].pc = "insert" \/ call[t].adds > 0)
                    => HashedInput(t)
               /\ call[t].pc = "insert"
                    => (call[t].adds = 0 /\ call[t].gets = 0)
               /\ (call[t].spec # None \/ call[t].gets > 0)
                    => /\ call[t].adds = 1
                       /\ ~call[t].commit_failed
                       /\ call[t].user_create.id \in Ids(rows)
                       /\ call[t].spec.value = call[t].user_create.id
               /\ (call[t].pc = "done" /\ call[t].exc = NoExc)
                    => /\ call[t].gets = 1
                       /\ call[t].created_user # None
                       /\ call[t].result = call[t].created_user)
  /\ [][\A t \in Tasks :
          CreateUserStep(t)
            => <<call[t].pc, call'[t].pc>> \in CreateUserOrder]_vars

\* A create_user call has gone through the insert and the re-read and has
\* returned the row read back.
C21_Witness ==
  \E t \in Tasks :
    /\ Created(t)
    /\ call[t].adds = 1
    /\ call[t].gets = 1
    /\ call[t].result = call[t].created_user
    /\ call[t].result.id \in Ids(rows)

\* The column a lookup compares, as the field argument alone decides it.
ColumnOfField(field_arg) ==
  IF field_arg = "username" THEN "username" ELSE "email"

\* Exactly one persisted row has the value of the specification of task t in
\* the column its field argument names.
OnlyMatch(t, r) ==
  /\ r \in rows
  /\ r[ColumnOfField(call[t].field_arg)] = call[t].spec.value
  /\ \A q \in rows :
       q[ColumnOfField(call[t].field_arg)] = call[t].spec.value => q = r

\* C22: when exactly one persisted row has the selected column (username or
\* email, email when the field is omitted) equal to spec.value and the query
\* does not fail, UniqueFilter.filter returns that row and no other.
C22_SingleMatchReturned ==
  /\ [](\A t \in Tasks :
          (Done(t, "unique_filter") /\ call[t].exc = NoExc)
            => (call[t].result # None /\ OnlyMatch(t, call[t].result)))
  /\ [][\A t \in Tasks : \A r \in rows :
          (SelectStep(t) /\ OnlyMatch(t, r) /\ ~call'[t].fetch_failed)
            => (call'[t].pc = "unique_return" /\ call'[t].db_obj = r)]_vars

\* A lookup that left out the field has returned the only row with the
\* email, on a table that holds another row too.
C22_Witness ==
  \E t \in Tasks :
    /\ Done(t, "unique_filter")
    /\ call[t].field_arg = FieldOmitted
    /\ call[t].result # None
    /\ call[t].result.email = call[t].spec.value
    /\ Cardinality(rows) >= 2

\* C23: when its query fails in the persistence layer, UniqueFilter.filter
\* logs the error and raises it again; it returns no value.
C23_QueryFailureReraised ==
  \A t \in Tasks :
    (Done(t, "unique_filter") /\ call[t].fetch_failed)
      => /\ call[t].exc = [type |-> "SQLAlchemyError", msg |-> DriverError]
         /\ call[t].errors = 1
         /\ call[t].result = None
         /\ call[t].db_obj = None

\* The query of a lookup that a row matches has failed.
C23_Witness ==
  \E t \in Tasks :
    /\ Done(t, "unique_filter")
    /\ call[t].fetch_failed
    /\ Matching(t) # {}
    /\ call[t].exc.type = "SQLAlchemyError"

\* C24: no repository or filter operation updates or deletes a persisted
\* row: every committed row stays in the table, with the fields it was
\* committed with, through every later call, so the table only grows.
C24_RowsOnlyGrow == [][rows \subseteq rows']_vars

\* A call that started on a table with rows has ended, the rows it started
\* on are still there and a row has come in since.
C24_Witness ==
  \E t \in Tasks :
    /\ call[t].pc = "done"
    /\ call[t].before # {}
    /\ call[t].before \subseteq Ids(rows)
    /\ Cardinality(rows) > Cardinality(call[t].before)

\* The frames, open scopes and releases of a create_user call at each step
\* from the re-read on: pc, stack, scopes, closes.
CreateUserScopes ==
  {<<"reread", <<"create_user">>, 1, 0>>,
   <<"get", <<"create_user", "read_by_id", "index_filter">>, 2, 0>>,
   <<"filter_return", <<"create_user", "read_by_id", "index_filter">>, 3, 0>>,
   <<"read_return", <<"create_user", "read_by_id">>, 2, 1>>,
   <<"verify", <<"create_user">>, 1, 2>>,
   <<"done", <<>>, 0, 3>>}

\* C26: in one create_user call the one session of the repository is entered
\* by three nested scopes (create_user, read_by_id, IndexFilter.filter) and
\* released once by each, innermost first; the first release comes while the
\* two outer scopes are open, and no add, commit or get runs on the session
\* after it.
C26_NestedScopesOnOneSession ==
  /\ [](\A t \in Tasks :
          (call[t].op = "create_user" /\ call[t].spec # None)
            => /\ <<call[t].pc, call[t].stack, call[t].scopes,
                    call[t].closes>> \in CreateUserScopes
               /\ session[call[t].repo].open = call[t].scopes
               /\ call[t].closes > 0
                    => session[call[t].repo].state = "closed")
  /\ [][\A t \in Tasks :
          (call[t].op = "create_user" /\ call[t].closes > 0
             /\ call'[t].op = "create_user")
            => /\ call'[t].adds = call[t].adds
               /\ call'[t].gets = call[t].gets
               /\ call'[t].closes \in {call[t].closes, call[t].closes + 1}
               /\ session'[call[t].repo].state = "closed"]_vars

\* The filter has left its scope inside create_user: the scopes of read_by_id
\* and of create_user are open on the closed session.
C26_Witness ==
  \E t \in Tasks :
    /\ call[t].op = "create_user"
    /\ call[t].pc = "read_return"
    /\ session[call[t].repo] = [open |-> 2, state |-> "closed"]
    /\ call[t].closes = 1

\* C27: create_user with an empty password raises the ValueError of the
\* hashing, not DatabaseException, before the session is entered; the table
\* and the sequence stay as they were.
C27_EmptyPasswordRaisesBeforeSession ==
  /\ [](\A t \in Tasks :
          (Done(t, "create_user") /\ call[t].arg.password = <<>>)
            => /\ call[t].exc = [type |-> "ValueError",
                                 msg |-> EmptyPasswordError]
               /\ call[t].result = None
               /\ call[t].adds = 0
               /\ call[t].scopes = 0
               /\ call[t].closes = 0
               /\ session[call[t].repo] = Fresh)
  /\ [][\A t \in Tasks :
          (call[t].pc = "idle" /\ call'[t].op = "create_user"
             /\ call'[t].arg.password = <<>>)
            => /\ call'[t].pc = "done"
               /\ rows' = rows
               /\ nextval' = nextval
               /\ session' = session]_vars

\* A create_user call with an empty password has ended on a table that
\* holds rows.
C27_Witness ==
  \E t \in Tasks :
    /\ Done(t, "create_user")
    /\ call[t].arg.password = <<>>
    /\ call[t].exc.type = "ValueError"
    /\ rows # {}

\* The calls that only read.
ReadOps == {"read_by_id", "index_filter", "unique_filter"}

\* Task t takes a step of a call that only reads: it starts it, runs it or
\* ends it.
ReadStep(t) ==
  /\ call'[t] # call[t]
  /\ \/ call[t].op \in ReadOps /\ call[t].pc # "done"
     \/ call[t].pc = "idle" /\ call'[t].op \in ReadOps

\* C28: read_by_id, IndexFilter.filter and UniqueFilter.filter only read:
\* whether they return a row, return None or raise, the table holds the same
\* rows with the same fields after the call as before it.
C28_ReadsLeaveRowsAlone ==
  /\ [][\A t \in Tasks :
          ReadStep(t) => (rows' = rows /\ nextval' = nextval)]_vars
  /\ [](\A t \in Tasks :
          (call[t].op \in ReadOps /\ call[t].pc = "done")
            => call[t].before \subseteq Ids(rows))

\* A read_by_id call has returned a row and the table has the ids it had
\* when the call started.
C28_Witness ==
  \E t \in Tasks :
    /\ Done(t, "read_by_id")
    /\ call[t].result # None
    /\ call[t].before = Ids(rows)
    /\ call[t].closes = 2

\* C29: UniqueFilter.filter takes the column it compares from the field
\* argument alone, never from the type of the specification: a
\* UsernameSpecification with the field left out is compared with the email
\* column, an EmailSpecification with field "username" with the username
\* column.
C29_ColumnFromFieldAlone ==
  \A t \in Tasks :
    (call[t].op = "unique_filter"
       /\ call[t].field_arg \in {FieldOmitted, "username", "email"})
      => /\ call[t].column = ColumnOfField(call[t].field_arg)
         /\ call[t].db_obj # None
              => call[t].db_obj[ColumnOfField(call[t].field_arg)]
                   = call[t].spec.value
         /\ (call[t].pc = "done" /\ ~call[t].fetch_failed
               /\ \E r \in rows :
                    r[ColumnOfField(call[t].field_arg)] = call[t].spec.value)
              => call[t].exc.type # "NoResultFound"

\* A lookup with a UsernameSpecification and no field has found no row,
\* though a row has that username.
C29_Witness ==
  \E t \in Tasks :
    /\ Done(t, "unique_filter")
    /\ call[t].spec.kind = "username"
    /\ call[t].field_arg = FieldOmitted
    /\ call[t].column = "email"
    /\ call[t].exc.type = "NoResultFound"
    /\ \E r \in rows : r.username = call[t].spec.value

\* The send of task t has failed with an SMTPException.
SmtpFailed(t) ==
  /\ call[t].mail # None
  /\ call[t].mail.value # None
  /\ call[t].mail.value.type = "str"

\* C25: send_email returns True if the email was sent and False otherwise:
\* when the send fails with an SMTPException, the value send_email returns
\* is False.
C25_SendEmailFalseOnFailure ==
  \A t \in Tasks :
    (Done(t, "send_email") /\ SmtpFailed(t))
      => (call[t].result = PyBool(FALSE) /\ ~Truthy(call[t].result))

\* The send of task t is over: send_message has returned or raised.
SendOver(t) ==
  /\ call[t].op \in {"send_email", "send_message"}
  /\ call[t].pc \in {"message_return", "email_return", "done"}

\* Task t leaves the login step without an error of the socket.
LoginStep(t) ==
  /\ call[t].pc = "login"
  /\ call'[t].pc # "login"
  /\ call'[t].exc = NoExc

\* C30: send_message does not look at what login_to_smtp returned: sendmail
\* is attempted after it whether the login gave True or False, and the
\* connection is closed on every way out of the send.
C30_LoginIgnoredConnectionClosed ==
  /\ [][\A t \in Tasks :
          LoginStep(t)
            => /\ call'[t].pc = "sendmail"
               /\ call'[t].mail.login \in {"True", "False"}
               /\ call'[t].mail.smtp_conn = "open"]_vars
  /\ [](\A t \in Tasks :
          SendOver(t)
            => /\ call[t].mail.smtp_conn # "open"
               /\ (call[t].mail.starttls + call[t].mail.sendmails > 0
                     \/ call[t].mail.login # "not called")
                    => call[t].mail.smtp_conn = "closed"
               /\ call[t].mail.login \in {"True", "False"}
                    => call[t].mail.sendmails = 1)

\* A send whose login returned False has gone on to sendmail, which went
\* through, and the connection is closed.
C30_Witness ==
  \E t \in Tasks :
    /\ Done(t, "send_message")
    /\ call[t].mail.login = "False"
    /\ call[t].mail.sendmails = 1
    /\ call[t].mail.smtp_conn = "closed"
    /\ call[t].result = PyBool(TRUE)

=============================================================================
